---- MODULE Spec2Model ----
(***************************************************************************)
(* Model of src/src/App.tsx, the single component of gym-log-app: the      *)
(* workout draft form, the committed workout list mirrored into            *)
(* localStorage under STORAGE_KEY, and the derived history / analytics     *)
(* views.                                                                  *)
(*                                                                         *)
(* Strings are sequences of one-character strings so that trim() and       *)
(* toLowerCase() are computed rather than assumed.  An id is an integer:   *)
(* the code only ever compares ids for equality, so crypto.randomUUID()    *)
(* is the least id of 1..MaxIds that no live object carries; ids already   *)
(* in localStorage from an earlier session are negative.  A date string    *)
(* is <<>> for '' and <<y, m, d>> for 'YYYY-MM-DD'.                        *)
(***************************************************************************)
EXTENDS Integers, Sequences, FiniteSets, TLC

(* Bounds of the model. *)
MaxEdits == 5

(* enough ids for every object MaxEdits changes of the form can create *)
MaxIds == 2 * MaxEdits + 3

(***************************************************************************)
(* Strings                                                                 *)
(***************************************************************************)
EmptyString == <<>>

IsWhiteSpace(c) == c = " "

RECURSIVE trimStart(_)
trimStart(s) ==
    IF s = <<>> THEN s
    ELSE IF IsWhiteSpace(Head(s)) THEN trimStart(Tail(s)) ELSE s

RECURSIVE trimEnd(_)
trimEnd(s) ==
    IF s = <<>> THEN s
    ELSE IF IsWhiteSpace(s[Len(s)]) THEN trimEnd(SubSeq(s, 1, Len(s) - 1)) ELSE s

(* String.prototype.trim *)
trim(s) == trimEnd(trimStart(s))

LowerOf(c) ==
    CASE c = "B" -> "b"
      [] c = "L" -> "l"
      [] OTHER -> c

(* String.prototype.toLowerCase *)
toLowerCase(s) == [i \in 1..Len(s) |-> LowerOf(s[i])]

(***************************************************************************)
(* Number(e.target.value || 0) of an <input type="number">                 *)
(***************************************************************************)
Digits == {"0", "1", "2", "3", "4", "5", "6", "7", "8", "9"}

DigitValue(c) ==
    CASE c = "0" -> 0 [] c = "1" -> 1 [] c = "2" -> 2 [] c = "3" -> 3
      [] c = "4" -> 4 [] c = "5" -> 5 [] c = "6" -> 6 [] c = "7" -> 7
      [] c = "8" -> 8 [] c = "9" -> 9

RECURSIVE DigitsValue(_)
DigitsValue(s) ==
    IF s = <<>> THEN 0
    ELSE 10 * DigitsValue(SubSeq(s, 1, Len(s) - 1)) + DigitValue(s[Len(s)])

AllDigits(s) == s # <<>> /\ \A i \in 1..Len(s) : s[i] \in Digits

(* what the user typed is a (here: integer) number the control accepts;    *)
(* min={0} constrains validity reporting only, not the value               *)
IsNumberText(typed) ==
    \/ AllDigits(typed)
    \/ typed # <<>> /\ Head(typed) = "-" /\ AllDigits(Tail(typed))

(* e.target.value: the control's value is '' unless the text is a number *)
targetValue(typed) == IF IsNumberText(typed) THEN typed ELSE EmptyString

(* Number(s) for a string the control let through *)
NumberOfString(s) ==
    IF Head(s) = "-" THEN 0 - DigitsValue(Tail(s)) ELSE DigitsValue(s)

(* Number(e.target.value || 0) *)
onChangeValue(typed) ==
    LET value == targetValue(typed)
    IN  IF value = EmptyString THEN 0 ELSE NumberOfString(value)

(***************************************************************************)
(* Dates: dayjs(date).valueOf() and dayjs(date).format('MMM D')            *)
(***************************************************************************)
Today == <<2024, 1, 2>>

(* NaN for an invalid date, otherwise a number increasing with the date *)
dayjsValueOf(date) ==
    IF date = <<>> THEN [nan |-> TRUE, n |-> 0]
    ELSE [nan |-> FALSE, n |-> date[1] * 10000 + date[2] * 100 + date[3]]

dayjsFormatMMMD(date) ==
    IF date = <<>> THEN <<"Invalid Date">> ELSE <<date[2], date[3]>>

(***************************************************************************)
(* createSet, createExercise                                               *)
(***************************************************************************)
createSet == [reps |-> 10, weight |-> 0]

createExercise(uuid) == [id |-> uuid, name |-> EmptyString, sets |-> <<createSet>>]

(***************************************************************************)
(* JSON text and localStorage                                              *)
(***************************************************************************)
JNull == [t |-> "null", v |-> 0]
JNumber(n) == [t |-> "number", v |-> n]
JString(s) == [t |-> "string", v |-> s]
JArray(items) == [t |-> "array", v |-> items]
JObject(fields) == [t |-> "object", v |-> fields]

SetToJSON(set) == JObject([reps |-> JNumber(set.reps), weight |-> JNumber(set.weight)])

ExerciseToJSON(ex) ==
    JObject([id |-> JString(ex.id),
             name |-> JString(ex.name),
             sets |-> JArray([i \in 1..Len(ex.sets) |-> SetToJSON(ex.sets[i])])])

WorkoutToJSON(w) ==
    JObject([id |-> JString(w.id),
             date |-> JString(w.date),
             workoutName |-> JString(w.workoutName),
             exercises |-> JArray([i \in 1..Len(w.exercises) |-> ExerciseToJSON(w.exercises[i])]),
             createdAt |-> JString(w.createdAt)])

(* JSON.stringify(items) for items: Workout[] *)
JSONstringify(items) ==
    [syntax |-> "json", value |-> JArray([i \in 1..Len(items) |-> WorkoutToJSON(items[i])])]

(* JSON.parse(raw): throws on text that is not JSON *)
JSONparse(raw) ==
    IF raw.syntax = "json" THEN [threw |-> FALSE, value |-> raw.value]
    ELSE [threw |-> TRUE, value |-> JNull]

SetFromJSON(j) == [reps |-> j.v.reps.v, weight |-> j.v.weight.v]

ExerciseFromJSON(j) ==
    [id |-> j.v.id.v,
     name |-> j.v.name.v,
     sets |-> [i \in 1..Len(j.v.sets.v) |-> SetFromJSON(j.v.sets.v[i])]]

WorkoutFromJSON(j) ==
    [id |-> j.v.id.v,
     date |-> j.v.date.v,
     workoutName |-> j.v.workoutName.v,
     exercises |-> [i \in 1..Len(j.v.exercises.v) |-> ExerciseFromJSON(j.v.exercises.v[i])],
     createdAt |-> j.v.createdAt.v]

(* the JavaScript array a parsed JSON array of workout objects denotes *)
AsWorkouts(parsed) == [i \in 1..Len(parsed.v) |-> WorkoutFromJSON(parsed.v[i])]

ArrayIsArray(parsed) == parsed.t = "array"

EmptyText == [syntax |-> "empty", value |-> JNull]
GarbageText == [syntax |-> "garbage", value |-> JNull]

(* the item under STORAGE_KEY: absent, or a text *)
NoItem == [present |-> FALSE, text |-> EmptyText]
Item(text) == [present |-> TRUE, text |-> text]

(* the body of the try block of loadWorkouts: a value, or an exception *)
loadWorkoutsTry(item) ==
    IF ~item.present \/ item.text.syntax = "empty"
    THEN [threw |-> FALSE, value |-> <<>>]
    ELSE LET parsed == JSONparse(item.text)
         IN  IF parsed.threw THEN [threw |-> TRUE, value |-> <<>>]
             ELSE IF ArrayIsArray(parsed.value)
                  THEN [threw |-> FALSE, value |-> AsWorkouts(parsed.value)]
                  ELSE [threw |-> FALSE, value |-> <<>>]

(* loadWorkouts without its try/catch: the exception of JSON.parse escapes *)
loadWorkoutsNoCatch(item) ==
    LET tried == loadWorkoutsTry(item)
    IN  [raised |-> tried.threw, value |-> tried.value]

(* loadWorkouts() given the item under STORAGE_KEY: catch returns [] *)
loadWorkouts(item) ==
    LET tried == loadWorkoutsTry(item)
    IN  IF tried.threw THEN [raised |-> FALSE, value |-> <<>>]
        ELSE [raised |-> FALSE, value |-> tried.value]

(* saveWorkouts(items): the item it leaves under STORAGE_KEY *)
saveWorkouts(items) == Item(JSONstringify(items))

(***************************************************************************)
(* Aggregation: sumWorkoutVolume, sumWorkoutReps, sortedWorkouts, dashboard *)
(***************************************************************************)
(* x || 0 on a number *)
OrZero(x) == IF x = 0 THEN 0 ELSE x

RECURSIVE setsVolume(_)
setsVolume(sets) ==
    IF sets = <<>> THEN 0
    ELSE setsVolume(SubSeq(sets, 1, Len(sets) - 1))
         + OrZero(sets[Len(sets)].reps) * OrZero(sets[Len(sets)].weight)

RECURSIVE setsReps(_)
setsReps(sets) ==
    IF sets = <<>> THEN 0
    ELSE setsReps(SubSeq(sets, 1, Len(sets) - 1)) + OrZero(sets[Len(sets)].reps)

RECURSIVE exercisesVolume(_)
exercisesVolume(exs) ==
    IF exs = <<>> THEN 0
    ELSE exercisesVolume(SubSeq(exs, 1, Len(exs) - 1)) + setsVolume(exs[Len(exs)].sets)

RECURSIVE exercisesReps(_)
exercisesReps(exs) ==
    IF exs = <<>> THEN 0
    ELSE exercisesReps(SubSeq(exs, 1, Len(exs) - 1)) + setsReps(exs[Len(exs)].sets)

sumWorkoutVolume(workout) == exercisesVolume(workout.exercises)

sumWorkoutReps(workout) == exercisesReps(workout.exercises)

(* (a, b) => dayjs(b.date).valueOf() - dayjs(a.date).valueOf(); a NaN      *)
(* result is taken as +0 by Array.prototype.sort                           *)
compareByDate(a, b) ==
    LET va == dayjsValueOf(a.date)
        vb == dayjsValueOf(b.date)
    IN  IF va.nan \/ vb.nan THEN 0 ELSE vb.n - va.n

(* insert x into a sorted prefix, after every element it does not precede *)
RECURSIVE insertSorted(_, _)
insertSorted(sorted, x) ==
    IF sorted = <<>> THEN <<x>>
    ELSE IF compareByDate(sorted[Len(sorted)], x) > 0
         THEN Append(insertSorted(SubSeq(sorted, 1, Len(sorted) - 1), x), sorted[Len(sorted)])
         ELSE Append(sorted, x)

(* [...items].sort(compareByDate): the stable insertion sort the engines   *)
(* run on short arrays                                                     *)
RECURSIVE sortByDate(_)
sortByDate(items) ==
    IF items = <<>> THEN <<>>
    ELSE insertSorted(sortByDate(SubSeq(items, 1, Len(items) - 1)), items[Len(items)])

Reverse(s) == [i \in 1..Len(s) |-> s[Len(s) + 1 - i]]

(* dashboard.lineData *)
lineData(sorted) ==
    LET chronological == Reverse(sorted)
    IN  [i \in 1..Len(chronological) |->
            [date |-> dayjsFormatMMMD(chronological[i].date),
             volume |-> sumWorkoutVolume(chronological[i]),
             reps |-> sumWorkoutReps(chronological[i])]]

RECURSIVE Flatten(_)
Flatten(seqs) == IF seqs = <<>> THEN <<>> ELSE Head(seqs) \o Flatten(Tail(seqs))

(* the exercises visited by the two nested for-of loops, in visiting order *)
visitedExercises(items) == Flatten([i \in 1..Len(items) |-> items[i].exercises])

(* position of key in the Map's entries, 0 if the Map has no such key *)
mapIndex(entries, key) ==
    IF \E i \in 1..Len(entries) : entries[i].key = key
    THEN CHOOSE i \in 1..Len(entries) : entries[i].key = key
    ELSE 0

(* the loop body setting, not adding to, the totals of a key seen before *)
byExerciseStepOverwrites(entries, ex) ==
    LET key == toLowerCase(trim(ex.name))
        at == mapIndex(entries, key)
        fresh == [key |-> key, name |-> trim(ex.name),
                  totalVolume |-> setsVolume(ex.sets), totalReps |-> setsReps(ex.sets)]
    IN  IF key = EmptyString THEN entries
        ELSE IF at # 0 THEN [entries EXCEPT ![at] = fresh]
        ELSE Append(entries, fresh)

(* one iteration of the loop body on the Map's entries (insertion order) *)
byExerciseStep(entries, ex) ==
    LET key == toLowerCase(trim(ex.name))
        at == mapIndex(entries, key)
        current == IF at # 0 THEN entries[at]
                   ELSE [key |-> key, name |-> trim(ex.name), totalVolume |-> 0, totalReps |-> 0]
        updated == [current EXCEPT !.totalVolume = @ + setsVolume(ex.sets),
                                   !.totalReps = @ + setsReps(ex.sets)]
    IN  IF key = EmptyString THEN entries
        ELSE IF at # 0 THEN [entries EXCEPT ![at] = updated]
        ELSE Append(entries, updated)

RECURSIVE byExerciseFold(_, _)
byExerciseFold(entries, exs) ==
    IF exs = <<>> THEN entries
    ELSE byExerciseFold(byExerciseStep(entries, Head(exs)), Tail(exs))

(* the entries of the byExercise Map after the loops *)
byExercise(items) == byExerciseFold(<<>>, visitedExercises(items))

(* dashboard.exerciseBars: sorted by totalVolume descending, first 10 *)
RECURSIVE insertByVolume(_, _)
insertByVolume(sorted, x) ==
    IF sorted = <<>> THEN <<x>>
    ELSE IF x.totalVolume - sorted[Len(sorted)].totalVolume > 0
         THEN Append(insertByVolume(SubSeq(sorted, 1, Len(sorted) - 1), x), sorted[Len(sorted)])
         ELSE Append(sorted, x)

RECURSIVE sortByVolume(_)
sortByVolume(entries) ==
    IF entries = <<>> THEN <<>>
    ELSE insertByVolume(sortByVolume(SubSeq(entries, 1, Len(entries) - 1)), entries[Len(entries)])

TopN == 10

exerciseBars(items) ==
    LET ranked == sortByVolume(byExercise(items))
        top == SubSeq(ranked, 1, IF Len(ranked) < TopN THEN Len(ranked) ELSE TopN)
    IN  [i \in 1..Len(top) |->
            [exercise |-> top[i].name, volume |-> top[i].totalVolume, reps |-> top[i].totalReps]]

(***************************************************************************)
(* Inputs                                                                  *)
(***************************************************************************)
Tabs == {"log", "history", "analytics"}

(* what the user types into the workout name field *)
WorkoutNameInputs == {<<" ">>, <<" ", "L", " ">>}

(* what the user types into an exercise name field *)
ExerciseNameInputs == {<<" ">>, <<" ", "b", " ">>}

(* what the date control yields: '' when cleared, or a date *)
DateInputs == {<<>>, <<2024, 1, 1>>}

(* what the user types into a reps or weight field *)
NumberInputs == {<<"x">>, <<"-", "5">>}

Fields == {"reps", "weight"}

NoAlert == "none"
AlertWorkoutName == "Please enter a workout name."
AlertExerciseNames == "Please enter all exercise names."

(* what new Date().toISOString() may yield *)
Timestamps == {1}

(* a workout an earlier session left in localStorage *)
StoredWorkout ==
    [id |-> 0 - 1,
     date |-> <<2024, 1, 3>>,
     workoutName |-> <<"L">>,
     exercises |-> <<[id |-> 0 - 2, name |-> <<"B">>, sets |-> <<[reps |-> 10, weight |-> 8]>>]>>,
     createdAt |-> 0]

(* what an earlier session of the page leaves under STORAGE_KEY *)
StoredItem == saveWorkouts(<<StoredWorkout>>)

(* what localStorage may hold under STORAGE_KEY when the page is opened:
   nothing, '', text that is not JSON, JSON that is not an array, an array *)
InitialItems ==
    {NoItem,
     Item(EmptyText),
     Item(GarbageText),
     Item([syntax |-> "json", value |-> JObject([id |-> JString(0 - 1)])]),
     StoredItem}

(***************************************************************************)
(* State                                                                   *)
(***************************************************************************)
VARIABLES
    tab,          \* useState 'log' | 'history' | 'analytics'
    workouts,     \* useState Workout[]
    date,         \* useState draft date
    workoutName,  \* useState draft workout name
    exercises,    \* useState draft ExerciseEntry[]
    storage,      \* localStorage item under STORAGE_KEY
    alert,        \* the message of the alert() the last handler raised
    edits         \* number of changes made to the draft form so far

vars == <<tab, workouts, date, workoutName, exercises, storage, alert, edits>>

ExerciseIds(exs) == {exs[i].id : i \in 1..Len(exs)}

(* the ids carried by the draft and by the workouts *)
LiveIds(items, exs) ==
    ExerciseIds(exs)
        \cup {items[i].id : i \in 1..Len(items)}
        \cup UNION {ExerciseIds(items[i].exercises) : i \in 1..Len(items)}

UnusedIds(items, exs) == (1..MaxIds) \ LiveIds(items, exs)

Min(S) == CHOOSE x \in S : \A y \in S : x <= y

(* crypto.randomUUID(), given the ids in use *)
randomUUID(used) == Min((1..MaxIds) \ used)

(* the state App() constructs on the item found in localStorage *)
Constructed(item) ==
    /\ storage = item
    /\ tab = "log"
    /\ workouts = loadWorkouts(item).value
    /\ date = Today
    /\ workoutName = EmptyString
    /\ exercises = <<createExercise(randomUUID({}))>>
    /\ alert = NoAlert
    /\ edits = 0

Init == Constructed(StoredItem)

InitAnyStorage == \E item \in InitialItems : Constructed(item)

(***************************************************************************)
(* The state updaters passed to setExercises                               *)
(***************************************************************************)
Filter(s, Keep(_)) == SelectSeq(s, Keep)

RemoveAt(s, index) == [i \in 1..(Len(s) - 1) |-> IF i < index THEN s[i] ELSE s[i + 1]]

(* sets.filter((_, i) => i !== setIndex), setIndex counted from 1 here *)
filterOutIndex(s, index) == IF index \in 1..Len(s) THEN RemoveAt(s, index) ELSE s

(* the updater without its comparison of ids: every exercise is renamed *)
updateExerciseNameEvery(prev, exerciseId, name) ==
    [i \in 1..Len(prev) |-> [prev[i] EXCEPT !.name = name]]

updateExerciseNamePrev(prev, exerciseId, name) ==
    [i \in 1..Len(prev) |->
        IF prev[i].id = exerciseId THEN [prev[i] EXCEPT !.name = name] ELSE prev[i]]

addExercisePrev(prev, uuid) == Append(prev, createExercise(uuid))

(* the updater without its prev.length === 1 guard *)
removeExerciseUnguarded(prev, exerciseId) ==
    LET Keep(ex) == ex.id # exerciseId IN Filter(prev, Keep)

removeExercisePrev(prev, exerciseId) ==
    IF Len(prev) = 1 THEN prev
    ELSE LET Keep(ex) == ex.id # exerciseId IN Filter(prev, Keep)

addSetPrev(prev, exerciseId) ==
    [i \in 1..Len(prev) |->
        IF prev[i].id = exerciseId
        THEN [prev[i] EXCEPT !.sets = Append(@, createSet)]
        ELSE prev[i]]

removeSetPrev(prev, exerciseId, setIndex) ==
    [i \in 1..Len(prev) |->
        IF prev[i].id # exerciseId THEN prev[i]
        ELSE IF Len(prev[i].sets) = 1 THEN prev[i]
        ELSE [prev[i] EXCEPT !.sets = filterOutIndex(@, setIndex)]]

setField(set, field, value) ==
    IF field = "reps" THEN [set EXCEPT !.reps = value] ELSE [set EXCEPT !.weight = value]

updateSetPrev(prev, exerciseId, setIndex, field, value) ==
    [i \in 1..Len(prev) |->
        IF prev[i].id # exerciseId THEN prev[i]
        ELSE LET sets == prev[i].sets
                 nextSets == [k \in 1..Len(sets) |->
                                IF k = setIndex THEN setField(sets[k], field, value) ELSE sets[k]]
             IN  [prev[i] EXCEPT !.sets = nextSets]]

(***************************************************************************)
(* Handlers                                                                *)
(***************************************************************************)
DraftIds == ExerciseIds(exercises)
WorkoutIds == {workouts[i].id : i \in 1..Len(workouts)}

SetIndexes(exerciseId) ==
    UNION {1..Len(exercises[i].sets) : i \in {k \in 1..Len(exercises) : exercises[k].id = exerciseId}}

(* one more change made to the draft form *)
Edited == edits < MaxEdits /\ edits' = edits + 1

(* the tab buttons *)
setTab(t) ==
    /\ tab' = t
    /\ alert' = NoAlert
    /\ UNCHANGED <<workouts, date, workoutName, exercises, storage, edits>>

(* the date control of the log tab *)
setDate(d) ==
    /\ tab = "log"
    /\ Edited
    /\ date' = d
    /\ alert' = NoAlert
    /\ UNCHANGED <<tab, workouts, workoutName, exercises, storage>>

(* the workout name field of the log tab *)
setWorkoutName(name) ==
    /\ tab = "log"
    /\ Edited
    /\ workoutName' = name
    /\ alert' = NoAlert
    /\ UNCHANGED <<tab, workouts, date, exercises, storage>>

updateExerciseName(exerciseId, name) ==
    /\ tab = "log"
    /\ Edited
    /\ exercises' = updateExerciseNamePrev(exercises, exerciseId, name)
    /\ alert' = NoAlert
    /\ UNCHANGED <<tab, workouts, date, workoutName, storage>>

addExercise ==
    /\ tab = "log"
    /\ Edited
    /\ exercises' = addExercisePrev(exercises, randomUUID(LiveIds(workouts, exercises)))
    /\ alert' = NoAlert
    /\ UNCHANGED <<tab, workouts, date, workoutName, storage>>

removeExercise(exerciseId) ==
    /\ tab = "log"
    /\ Edited
    /\ exercises' = removeExercisePrev(exercises, exerciseId)
    /\ alert' = NoAlert
    /\ UNCHANGED <<tab, workouts, date, workoutName, storage>>

addSet(exerciseId) ==
    /\ tab = "log"
    /\ Edited
    /\ exercises' = addSetPrev(exercises, exerciseId)
    /\ alert' = NoAlert
    /\ UNCHANGED <<tab, workouts, date, workoutName, storage>>

removeSet(exerciseId, setIndex) ==
    /\ tab = "log"
    /\ Edited
    /\ exercises' = removeSetPrev(exercises, exerciseId, setIndex)
    /\ alert' = NoAlert
    /\ UNCHANGED <<tab, workouts, date, workoutName, storage>>

(* onChange of a reps or weight field *)
updateSet(exerciseId, setIndex, field, typed) ==
    /\ tab = "log"
    /\ Edited
    /\ exercises' = updateSetPrev(exercises, exerciseId, setIndex, field, onChangeValue(typed))
    /\ alert' = NoAlert
    /\ UNCHANGED <<tab, workouts, date, workoutName, storage>>

workoutNameBlank == trim(workoutName) = EmptyString

(* the check without trim(): only '' counts as missing *)
someExerciseNameEmpty == \E i \in 1..Len(exercises) : exercises[i].name = EmptyString

someExerciseNameBlank == \E i \in 1..Len(exercises) : trim(exercises[i].name) = EmptyString

(* the new workout put last *)
workoutAppended(workout, items) == Append(items, workout)

(* the new workout alone: the spread of the previous list left out *)
workoutAlone(workout, items) == <<workout>>

(* const next = [workout, ...workouts] *)
workoutPrepended(workout, items) == <<workout>> \o items

handleSaveWorkout(now) ==
    /\ tab = "log"
    /\ IF workoutNameBlank
       THEN /\ alert' = AlertWorkoutName
            /\ UNCHANGED <<tab, workouts, date, workoutName, exercises, storage, edits>>
       ELSE IF someExerciseNameBlank
       THEN /\ alert' = AlertExerciseNames
            /\ UNCHANGED <<tab, workouts, date, workoutName, exercises, storage, edits>>
       ELSE /\ LET workout == [id |-> randomUUID(LiveIds(workouts, exercises)),
                               date |-> date,
                               workoutName |-> trim(workoutName),
                               exercises |-> exercises,
                               createdAt |-> now]
                   next == workoutPrepended(workout, workouts)
               IN  /\ workouts' = next
                   /\ storage' = saveWorkouts(next)
                   /\ exercises' = <<createExercise(randomUUID(LiveIds(next, <<>>)))>>
            /\ workoutName' = EmptyString
            /\ date' = Today
            /\ tab' = "history"
            /\ alert' = NoAlert
            /\ UNCHANGED edits

(* deleteWorkout without its saveWorkouts(next) *)
deleteWorkoutUnsaved(workoutId) ==
    /\ tab = "history"
    /\ LET Keep(w) == w.id # workoutId
       IN  workouts' = Filter(workouts, Keep)
    /\ alert' = NoAlert
    /\ UNCHANGED <<tab, date, workoutName, exercises, storage, edits>>

deleteWorkout(workoutId) ==
    /\ tab = "history"
    /\ LET Keep(w) == w.id # workoutId
           next == Filter(workouts, Keep)
       IN  /\ workouts' = next
           /\ storage' = saveWorkouts(next)
    /\ alert' = NoAlert
    /\ UNCHANGED <<tab, date, workoutName, exercises, edits>>

(* the page is loaded again: App() is constructed from what is stored *)
Mount ==
    /\ LET loaded == loadWorkouts(storage).value
       IN  /\ workouts' = loaded
           /\ exercises' = <<createExercise(randomUUID(LiveIds(loaded, <<>>)))>>
    /\ tab' = "log"
    /\ date' = Today
    /\ workoutName' = EmptyString
    /\ alert' = NoAlert
    /\ UNCHANGED <<storage, edits>>

Next ==
    \/ \E t \in Tabs : setTab(t)
    \/ \E d \in DateInputs : setDate(d)
    \/ \E name \in WorkoutNameInputs : setWorkoutName(name)
    \/ \E id \in DraftIds, name \in ExerciseNameInputs : updateExerciseName(id, name)
    \/ addExercise
    \/ \E id \in DraftIds : removeExercise(id)
    \/ \E id \in DraftIds : addSet(id)
    \/ \E id \in DraftIds : \E k \in SetIndexes(id) : removeSet(id, k)
    \/ \E id \in DraftIds : \E k \in SetIndexes(id) :
          \E field \in Fields, typed \in NumberInputs : updateSet(id, k, field, typed)
    \/ \E now \in Timestamps : handleSaveWorkout(now)
    \/ \E id \in WorkoutIds : deleteWorkout(id)
    \/ Mount

Spec == Init /\ [][Next]_vars

SpecAnyStorage == InitAnyStorage /\ [][Next]_vars

(***************************************************************************)
(* Vocabulary of the properties                                            *)
(***************************************************************************)
(* s consists of white space only *)
IsBlank(s) == \A i \in 1..Len(s) : s[i] = " "

(* s without its leading and trailing white space *)
Stripped(s) ==
    IF IsBlank(s) THEN <<>>
    ELSE LET first == CHOOSE i \in 1..Len(s) : s[i] # " " /\ \A k \in 1..(i - 1) : s[k] = " "
             last == CHOOSE j \in 1..Len(s) : s[j] # " " /\ \A k \in (j + 1)..Len(s) : s[k] = " "
         IN  [k \in 1..(last - first + 1) |-> s[first + k - 1]]

DraftValid ==
    /\ ~IsBlank(workoutName)
    /\ \A i \in 1..Len(exercises) : ~IsBlank(exercises[i].name)

(* the step is a run of handleSaveWorkout: it raised an alert or it committed *)
SaveRan == alert' # NoAlert \/ Len(workouts') > Len(workouts)

AllSets(exs) == UNION {{exs[i].sets[k] : k \in 1..Len(exs[i].sets)} : i \in 1..Len(exs)}

(* C1: a run of handleSaveWorkout on a draft whose workout name and exercise
   names are all non-blank after trimming leaves, in memory and in storage,
   the new workout (the draft's date, the trimmed name, the draft's
   exercises) followed by the previous collection, and resets the draft to
   an empty name and one unnamed exercise with the one set {10, 0}. *)
C1_SavePrependsAndResets ==
    [][(SaveRan /\ DraftValid) =>
        /\ Len(workouts') = Len(workouts) + 1
        /\ workouts'[1].date = date
        /\ workouts'[1].workoutName = Stripped(workoutName)
        /\ workouts'[1].exercises = exercises
        /\ SubSeq(workouts', 2, Len(workouts')) = workouts
        /\ loadWorkouts(storage').value = workouts'
        /\ workoutName' = <<>>
        /\ Len(exercises') = 1
        /\ exercises'[1].name = <<>>
        /\ exercises'[1].sets = <<[reps |-> 10, weight |-> 0]>>
      ]_vars

C1_Witness ==
    /\ Len(workouts) = 2
    /\ workouts[2] = StoredWorkout
    /\ workouts[1].workoutName = <<"L">>
    /\ Len(workouts[1].exercises) = 2
    /\ workoutName = <<>>
    /\ Len(exercises) = 1

(* C2: a run of handleSaveWorkout on a draft whose workout name, or one of
   whose exercise names, is blank after trimming changes neither the workout
   list nor the stored item nor the draft. *)
C2_BlankNameAborts ==
    [][(SaveRan /\ ~DraftValid) =>
        UNCHANGED <<workouts, storage, date, workoutName, exercises>>
      ]_vars

C2_Witness ==
    /\ alert = AlertExerciseNames
    /\ workoutName = <<" ", "L", " ">>
    /\ \E i \in 1..Len(exercises) : exercises[i].name = <<" ">>

(* C3: the draft always has an exercise, every draft exercise a set, every
   workout an exercise and every exercise of a workout a set; removeExercise
   on a one-exercise draft and removeSet on a one-set exercise return the
   draft they were given. *)
C3_NeverEmpty ==
    /\ Len(exercises) >= 1
    /\ \A i \in 1..Len(exercises) : Len(exercises[i].sets) >= 1
    /\ \A w \in 1..Len(workouts) :
          /\ Len(workouts[w].exercises) >= 1
          /\ \A i \in 1..Len(workouts[w].exercises) : Len(workouts[w].exercises[i].sets) >= 1
    /\ Len(exercises) = 1 =>
          \A id \in DraftIds : removeExercisePrev(exercises, id) = exercises
    /\ \A i \in 1..Len(exercises) :
          Len(exercises[i].sets) = 1 =>
              \A k \in 0..2 : removeSetPrev(exercises, exercises[i].id, k)[i] = exercises[i]

(* an exercise was added and the first one removed: one exercise is left *)
C3_Witness ==
    /\ workouts = <<>>
    /\ Len(exercises) = 1
    /\ exercises[1].id = 2
    /\ Len(exercises[1].sets) = 1

(* C4: what loadWorkouts returns from the stored item is the in-memory
   workout list, in every state. *)
C4_StorageMirrorsWorkouts ==
    /\ ~loadWorkouts(storage).raised
    /\ loadWorkouts(storage).value = workouts

(* a two-exercise workout was saved and written to storage *)
C4_Witness ==
    /\ Len(workouts) = 1
    /\ workouts[1].id > 0
    /\ Len(workouts[1].exercises) = 2
    /\ tab = "history"

Range(s) == {s[i] : i \in 1..Len(s)}

(* C5: in every step each workout of the collection either stays, with the
   same content, or is the one workout the step deletes; the workouts that
   stay keep their order, and a deleting step leaves exactly the others and
   no workout with the deleted id. *)
C5_WorkoutsImmutableUntilDeleted ==
    [][LET StaysIn(w) == w \in Range(workouts')
           WasIn(w) == w \in Range(workouts)
           gone == {w \in Range(workouts) : ~StaysIn(w)}
       IN  /\ Cardinality(gone) <= 1
           /\ SelectSeq(workouts, StaysIn) = SelectSeq(workouts', WasIn)
           /\ gone # {} =>
                 /\ workouts' = SelectSeq(workouts, StaysIn)
                 /\ \A w \in gone : \A j \in 1..Len(workouts') : workouts'[j].id # w.id
      ]_vars

(* two workouts were saved while ids 1 and 2 were in use, then the first of
   them was deleted *)
C5_Witness ==
    /\ Len(workouts) = 1
    /\ workouts[1].id = 4
    /\ ExerciseIds(workouts[1].exercises) = {3}

(* C6: loadWorkouts does not raise; it returns the empty sequence when the
   item is absent, empty, not JSON, or JSON that is not an array, and the
   sequence the array denotes when the item is a JSON array. *)
C6_LoadFailsOpen ==
    LET loaded == loadWorkouts(storage)
        isArray == /\ storage.present
                   /\ storage.text.syntax = "json"
                   /\ storage.text.value.t = "array"
    IN  /\ ~loaded.raised
        /\ ~isArray => loaded.value = <<>>
        /\ isArray =>
              /\ Len(loaded.value) = Len(storage.text.value.v)
              /\ \A i \in 1..Len(loaded.value) :
                    WorkoutToJSON(loaded.value[i]) = storage.text.value.v[i]

(* the page was opened on an item that is not JSON *)
C6_Witness == storage = Item(GarbageText) /\ workouts = <<>> /\ edits > 0

(* C7: every set of the draft and of every workout has reps >= 0 and
   weight >= 0, whatever is typed into the number fields. *)
C7_SetsNonNegative ==
    \A set \in AllSets(exercises) \cup UNION {AllSets(workouts[w].exercises) : w \in 1..Len(workouts)} :
        set.reps >= 0 /\ set.weight >= 0

RECURSIVE SumOf(_, _)
SumOf(f, S) ==
    IF S = {} THEN 0
    ELSE LET x == CHOOSE y \in S : TRUE IN f[x] + SumOf(f, S \ {x})

VolumeOf(ex) == SumOf([k \in 1..Len(ex.sets) |-> ex.sets[k].reps * ex.sets[k].weight], 1..Len(ex.sets))
RepsOf(ex) == SumOf([k \in 1..Len(ex.sets) |-> ex.sets[k].reps], 1..Len(ex.sets))

KeyOf(ex) == toLowerCase(Stripped(ex.name))

(* C8: the groups of byExercise are exactly the distinct non-empty keys
   (name trimmed and lower-cased) of the exercises of all workouts, one group
   per key, and a group's totals are the sums of reps x weight and of reps
   over all sets of all exercises with that key. *)
C8_GroupsSumPerKey ==
    LET entries == byExercise(workouts)
        exs == visitedExercises(workouts)
        keys == {KeyOf(exs[i]) : i \in 1..Len(exs)} \ {<<>>}
        Members(key) == {i \in 1..Len(exs) : KeyOf(exs[i]) = key}
    IN  /\ {entries[i].key : i \in 1..Len(entries)} = keys
        /\ Len(entries) = Cardinality(keys)
        /\ \A i \in 1..Len(entries) :
              /\ entries[i].totalVolume =
                    SumOf([j \in 1..Len(exs) |-> VolumeOf(exs[j])], Members(entries[i].key))
              /\ entries[i].totalReps =
                    SumOf([j \in 1..Len(exs) |-> RepsOf(exs[j])], Members(entries[i].key))

(* "B" of the stored workout and " b " of a saved one fall into one group,
   each with a volume that is not 0 *)
C8_Witness ==
    /\ Len(workouts) = 2
    /\ workouts[2] = StoredWorkout
    /\ \E i \in 1..Len(workouts[1].exercises) :
          /\ workouts[1].exercises[i].name = <<" ", "b", " ">>
          /\ VolumeOf(workouts[1].exercises[i]) # 0

HasDate(w) == w.date # <<>>

(* date a is not earlier than date b *)
NotEarlier(a, b) ==
    \/ a[1] > b[1]
    \/ a[1] = b[1] /\ a[2] > b[2]
    \/ a[1] = b[1] /\ a[2] = b[2] /\ a[3] >= b[3]

(* C9: sortedWorkouts holds every workout of the collection exactly once,
   most recent date first; lineData has one point per workout, in the
   reverse of that order, with that workout's volume and reps. *)
C9_HistorySortedByDate ==
    LET sorted == sortByDate(workouts)
        line == lineData(sorted)
        n == Len(workouts)
    IN  /\ Len(sorted) = n
        /\ \A w \in Range(workouts) : Cardinality({i \in 1..n : sorted[i] = w}) = 1
        /\ \A i, j \in 1..n :
              (i < j /\ HasDate(sorted[i]) /\ HasDate(sorted[j]))
                  => NotEarlier(sorted[i].date, sorted[j].date)
        /\ Len(line) = n
        /\ \A i \in 1..n :
              /\ line[i].volume = SumOf([k \in 1..Len(sorted[n + 1 - i].exercises) |->
                                            VolumeOf(sorted[n + 1 - i].exercises[k])],
                                        1..Len(sorted[n + 1 - i].exercises))
              /\ line[i].reps = SumOf([k \in 1..Len(sorted[n + 1 - i].exercises) |->
                                          RepsOf(sorted[n + 1 - i].exercises[k])],
                                      1..Len(sorted[n + 1 - i].exercises))

(* the exercises of r other than exerciseId are those of the draft, in
   order, and r is the draft when no exercise carries exerciseId *)
Targeted(r, exerciseId) ==
    LET Other(ex) == ex.id # exerciseId
    IN  IF exerciseId \in DraftIds
        THEN SelectSeq(r, Other) = SelectSeq(exercises, Other)
        ELSE r = exercises

(* an id no exercise carries *)
NoSuchId == MaxIds + 1

(* the set indexes of the draft, and two that no set has *)
SomeIndexes == 0..(1 + Len(exercises[1].sets))

(* the updaters, applied to the draft the log tab shows, change the named
   exercise only *)
C10_UpdatersTargeted ==
    tab = "log" =>
        /\ \A uuid \in {randomUUID(LiveIds(workouts, exercises))} :
              SubSeq(addExercisePrev(exercises, uuid), 1, Len(exercises)) = exercises
        /\ \A id \in DraftIds \cup {NoSuchId} :
              /\ \A name \in ExerciseNameInputs :
                    Targeted(updateExerciseNamePrev(exercises, id, name), id)
              /\ Targeted(removeExercisePrev(exercises, id), id)
              /\ Targeted(addSetPrev(exercises, id), id)
              /\ \A k \in SomeIndexes :
                    /\ Targeted(removeSetPrev(exercises, id, k), id)
                    /\ \A field \in Fields, typed \in NumberInputs :
                          Targeted(updateSetPrev(exercises, id, k, field, onChangeValue(typed)), id)

(* C10: a step that changes the draft and commits nothing leaves the
   workout list and the stored item as they were, and each updater applied
   to the draft leaves the exercises it does not name as they were (all of
   them when no exercise carries the id). *)
C10_DraftEditsAreLocal ==
    /\ []C10_UpdatersTargeted
    /\ [][(<<date, workoutName, exercises>>' # <<date, workoutName, exercises>>
            /\ Len(workouts') <= Len(workouts))
          => UNCHANGED <<workouts, storage>>]_vars

(* the second of two draft exercises was renamed and had its reps changed;
   the first is as it was created *)
C10_Witness ==
    /\ Len(exercises) = 2
    /\ exercises[1] = createExercise(exercises[1].id)
    /\ exercises[2].name # <<>>
    /\ exercises[2].sets[1].reps # 10

====
